---- MODULE Spec2Model ----
(***************************************************************************)
(* Model of the frame protocol tools of modern-ai-tool-protocol:           *)
(*   src/src/tools/int-stream.ts   the integer stream (query + mutation)   *)
(*   src/unnamed/part_005          the web tools (tools/web.ts)            *)
(*   src/src/compiler/parallel.ts  parallel() for query batches            *)
(* JavaScript runs one task at a time: the body of an async function       *)
(* without an await runs to completion when it is called, so one call of a *)
(* tool's execute, and one call of parallel(), is one atomic step.  What    *)
(* interleaves are the calls of different callers.                         *)
(***************************************************************************)
EXTENDS Integers, Sequences, FiniteSets, TLC

\* ------------------------------------------------------------ tools/mock-dom.ts
mockPage ==
    [sequence |-> 1,
     content |-> "<div><button>Click me</button><a href=\"#\">Link</a></div>",
     type |-> "full"]

\* ------------------------------------------------------------------ bounds
\* Mutations are executed only while the head sequence is below MaxSeq.
MaxSeq == 3
\* Number of concurrent callers of the tools.
NumCallers == 2
\* Longest batch handed to parallel().
MaxBatch == 2

Callers == 1..NumCallers
\* basedOnSequence values a caller may send to the integer stream's tools.
SeqInputs == 1..MaxSeq
\* basedOnSequence values a caller may send to the web tools: the sequence of
\* mockPage, which currentFrame never leaves, and another one.
WebSeqInputs == {mockPage.sequence, mockPage.sequence + 1}
\* The spec's scenario: increment(amount=5) anchored to any sequence, and the
\* increment(amount=1, basedOnSequence=1) that is stale once the head has moved.
IncrementInputs ==
    {[amount |-> 5, basedOnSequence |-> b] : b \in SeqInputs}
        \cup {[amount |-> 1, basedOnSequence |-> 1]}

VARIABLES
    currentValue,     \* int-stream.ts: let currentValue
    currentSequence,  \* int-stream.ts: let currentSequence
    currentFrame,     \* tools/web.ts: let currentFrame
    call,             \* per caller: the tool call it has in flight and its outcome
    batch,            \* the promise of the last parallel() call not yet delivered
    returned          \* history: <<amount, frame>> of every incrementValue call that returned a frame

VARIABLES
    history,          \* Frame Protocol v1: the frames created so far, oldest first
    resolution        \* the last run of the client side resolution loop

frameVars == <<history, resolution>>

VARIABLES
    streamState,      \* StreamController: private state
    stateChanges,     \* the 'stateChange' events the controller has emitted
    lastTransition,   \* the last call of StreamController.transition and whether it threw
    gen,              \* executeStream: where the generator stands
    aborted,          \* options.signal.aborted
    events            \* what executeStream has yielded so far

controllerVars == <<streamState, stateChanges, lastTransition>>
streamVars == <<controllerVars, gen, aborted, events>>

VARIABLES
    sessionId,        \* SYNC.md: the session of the connection
    lastSent,         \* client.lastSent: sequence of the last event sent
    lastAck,          \* model.lastAck: the acknowledgment recorded
    eventLog,         \* the client's event log of the session
    ackHistory,       \* history: the highest sequence acknowledged in the session, and
                      \* whether an acknowledgment arrived after a higher one
    recovery,         \* the recovery-required notification not yet handled
    snapshot          \* the last state snapshot sent to the model

syncVars == <<sessionId, lastSent, lastAck, eventLog, ackHistory, recovery, snapshot>>

VARIABLES
    validation        \* validation/index.ts: the last call of validateTool and its result

validatorVars == <<validation>>

VARIABLES
    compilation       \* compiler/index.ts: the last call of validateTool and what it returned

compilerVars == <<compilation>>

VARIABLES
    handlers,         \* SimpleEventBus.handlers: per type, the registered functions in order
    eventQueue,       \* SimpleEventBus.eventQueue
    emitted,          \* the number of events built by emit so far (the next event's id)
    subscriptions,    \* the closures returned by on and once, in order of registration
    onceCalls,        \* per subscription of once, how often its handler has been called
    relayed,          \* the relaying handler's own flag: it has emitted its event
    delivery          \* the last emit of a caller and the handler calls made during it

busVars == <<handlers, eventQueue, emitted, subscriptions, onceCalls, relayed, delivery>>

VARIABLES
    clock,            \* Date.now()
    lastEventTime,    \* RATE_LIMITING.md: let lastEventTime
    forwarded,        \* the times at which emitCursorEvent called eventBus.emit
    dropped           \* the times at which emitCursorEvent returned without it

limiterVars == <<clock, lastEventTime, forwarded, dropped>>

\* What the steps of the tools leave alone.
otherThanTools == <<frameVars, streamVars, syncVars, validatorVars, compilerVars, busVars, limiterVars>>

vars == <<currentValue, currentSequence, currentFrame, call, batch, returned, frameVars, streamVars, syncVars, validatorVars, compilerVars, busVars, limiterVars>>

\* ------------------------------------------------------------ promises
NoValue == [none |-> TRUE]
Fulfilled(v) == [status |-> "fulfilled", value |-> v, error |-> ""]
Rejected(msg) == [status |-> "rejected", value |-> NoValue, error |-> msg]

\* The messages of the errors the code throws.
InvalidSequence == "Invalid sequence number"
QueryOnly == "parallel() can only be used with query tools"
SameSequence == "All parallel tools must use the same sequence number"

\* The state of the tools' modules, as a value the tools' bodies transform.
ModuleState == [currentValue |-> currentValue, currentSequence |-> currentSequence]

\* --------------------------------------------------------- tools/int-stream.ts
\* getCurrentValue.execute: the outcome, as [state, result].
getCurrentValueNoCheck(s, input) ==
    [state |-> s,
     result |-> Fulfilled([sequence |-> s.currentSequence, type |-> "full",
                           content |-> <<"Value is ", s.currentValue>>,
                           value |-> s.currentValue])]

getCurrentValueAdvances(s, input) ==
    IF input.basedOnSequence # s.currentSequence
    THEN [state |-> s, result |-> Rejected(InvalidSequence)]
    ELSE [state |-> [s EXCEPT !.currentSequence = @ + 1],
          result |-> Fulfilled([sequence |-> s.currentSequence, type |-> "full",
                                content |-> <<"Value is ", s.currentValue>>,
                                value |-> s.currentValue])]

getCurrentValue(s, input) ==
    IF input.basedOnSequence # s.currentSequence
    THEN [state |-> s, result |-> Rejected(InvalidSequence)]
    ELSE [state |-> s,
          result |-> Fulfilled([sequence |-> s.currentSequence, type |-> "full",
                                content |-> <<"Value is ", s.currentValue>>,
                                value |-> s.currentValue])]

\* incrementValue.execute
incrementValueNoCheck(s, input) ==
    LET v == s.currentValue + input.amount
        q == s.currentSequence + 1
    IN [state |-> [currentValue |-> v, currentSequence |-> q],
        result |-> Fulfilled([sequence |-> q, type |-> "full",
                              content |-> <<"Value is now ", v>>, value |-> v])]

incrementValueNoBump(s, input) ==
    IF input.basedOnSequence # s.currentSequence
    THEN [state |-> s, result |-> Rejected(InvalidSequence)]
    ELSE LET v == s.currentValue + input.amount
         IN [state |-> [currentValue |-> v, currentSequence |-> s.currentSequence],
             result |-> Fulfilled([sequence |-> s.currentSequence, type |-> "full",
                                   content |-> <<"Value is now ", v>>, value |-> v])]

incrementValueHalfCommit(s, input) ==
    LET v == s.currentValue + input.amount
    IN IF input.basedOnSequence # s.currentSequence
       THEN [state |-> [currentValue |-> v, currentSequence |-> s.currentSequence],
             result |-> Rejected(InvalidSequence)]
       ELSE [state |-> [currentValue |-> v, currentSequence |-> s.currentSequence + 1],
             result |-> Fulfilled([sequence |-> s.currentSequence + 1, type |-> "full",
                                   content |-> <<"Value is now ", v>>, value |-> v])]

incrementValue(s, input) ==
    IF input.basedOnSequence # s.currentSequence
    THEN [state |-> s, result |-> Rejected(InvalidSequence)]
    ELSE LET v == s.currentValue + input.amount
             q == s.currentSequence + 1
         IN [state |-> [currentValue |-> v, currentSequence |-> q],
             result |-> Fulfilled([sequence |-> q, type |-> "full",
                                   content |-> <<"Value is now ", v>>, value |-> v])]

\* ---------------------------------------------------------------- tools/web.ts
\* getClickableElements.execute: reads neither its input nor currentFrame.
getClickableElements(s, input) ==
    [state |-> s, result |-> Fulfilled([elements |-> <<>>])]

\* clickElement.execute: reads neither its input nor currentFrame.
clickElement(s, input) ==
    [state |-> s, result |-> Fulfilled([clicked |-> TRUE])]

\* ------------------------------------------------------------- the tool table
ToolNames == {"get_current_value", "increment_value", "getClickableElements", "clickElement"}

\* ToolDefinition.type
ToolType(tool) ==
    CASE tool = "get_current_value" -> "query"
      [] tool = "increment_value" -> "mutation"
      [] tool = "getClickableElements" -> "query"
      [] tool = "clickElement" -> "mutation"

\* ToolDefinition.reason ("Model explains why it's using this tool"): optional,
\* and set by none of the tool definitions.
NoReason == "undefined"
reason(tool) ==
    CASE tool = "get_current_value" -> NoReason
      [] tool = "increment_value" -> NoReason
      [] tool = "getClickableElements" -> NoReason
      [] tool = "clickElement" -> NoReason

\* Thought Protocol: the thought frames that go with a tool frame. The thought
\* is the reason of the tool, and execute neither reads nor requires it.
thoughtFrames(tool, frame) ==
    IF reason(tool) = NoReason
    THEN {}
    ELSE {[sequence |-> frame.sequence, thought |-> reason(tool), status |-> "success"]}

\* ToolDefinition.execute
execute(tool, s, input) ==
    CASE tool = "get_current_value" -> getCurrentValue(s, input)
      [] tool = "increment_value" -> incrementValue(s, input)
      [] tool = "getClickableElements" -> getClickableElements(s, input)
      [] tool = "clickElement" -> clickElement(s, input)

\* The head sequence a call of the tool is anchored against: the integer
\* stream's counter, or the sequence of the web tools' current frame.
HeadOf(tool) ==
    IF tool \in {"get_current_value", "increment_value"}
    THEN currentSequence
    ELSE currentFrame.sequence

\* The inputs a caller may hand to a tool.
Inputs(tool) ==
    CASE tool = "get_current_value" ->
            {[basedOnSequence |-> b] : b \in SeqInputs}
      [] tool = "increment_value" ->
            IncrementInputs
      [] tool = "getClickableElements" ->
            {[basedOnSequence |-> b] : b \in WebSeqInputs}
      [] tool = "clickElement" ->
            {[basedOnSequence |-> b, selector |-> "#button"] : b \in WebSeqInputs}

\* ---------------------------------------------------------- compiler/parallel.ts
\* tools.map((tool, i) => tool.execute(inputs[i])): the executes run one after
\* the other, in index order, inside the one call of parallel().
RECURSIVE MapExecute(_, _, _, _)
MapExecute(s, tools, inputs, i) ==
    IF i > Len(tools)
    THEN [state |-> s, settled |-> <<>>]
    ELSE LET r == execute(tools[i], s, inputs[i])
             rest == MapExecute(r.state, tools, inputs, i + 1)
         IN [state |-> rest.state, settled |-> <<r.result>> \o rest.settled]

\* Promise.all over promises that are all settled already: the first
\* rejection in index order, or the array of the values.
PromiseAll(settled) ==
    LET bad == {i \in DOMAIN settled : settled[i].status = "rejected"}
    IN IF bad # {}
       THEN Rejected(settled[CHOOSE i \in bad : \A j \in bad : i <= j].error)
       ELSE Fulfilled([i \in DOMAIN settled |-> settled[i].value])

parallelNoTypeCheck(s, tools, inputs) ==
    IF ~ (\A i \in DOMAIN inputs : inputs[i].basedOnSequence = inputs[1].basedOnSequence)
    THEN [state |-> s, settled |-> <<>>, result |-> Rejected(SameSequence)]
    ELSE LET run == MapExecute(s, tools, inputs, 1)
         IN [state |-> run.state, settled |-> run.settled,
             result |-> PromiseAll(run.settled)]

parallelNoSequenceCheck(s, tools, inputs) ==
    IF ~ (\A i \in DOMAIN tools : ToolType(tools[i]) = "query")
    THEN [state |-> s, settled |-> <<>>, result |-> Rejected(QueryOnly)]
    ELSE LET run == MapExecute(s, tools, inputs, 1)
         IN [state |-> run.state, settled |-> run.settled,
             result |-> PromiseAll(run.settled)]

\* parallel() with the sequence check ahead of the type check.
parallelSequenceFirst(s, tools, inputs) ==
    IF ~ (\A i \in DOMAIN inputs :
             inputs[i].basedOnSequence = inputs[1].basedOnSequence)
    THEN [state |-> s, settled |-> <<>>, result |-> Rejected(SameSequence)]
    ELSE IF ~ (\A i \in DOMAIN tools : ToolType(tools[i]) = "query")
    THEN [state |-> s, settled |-> <<>>, result |-> Rejected(QueryOnly)]
    ELSE LET run == MapExecute(s, tools, inputs, 1)
         IN [state |-> run.state, settled |-> run.settled,
             result |-> PromiseAll(run.settled)]

\* parallel(tools, inputs): [state, settled, result], settled being the
\* outcomes of the executes that were invoked.
parallel(s, tools, inputs) ==
    IF ~ (\A i \in DOMAIN tools : ToolType(tools[i]) = "query")
    THEN [state |-> s, settled |-> <<>>, result |-> Rejected(QueryOnly)]
    ELSE IF ~ (\A i \in DOMAIN inputs :
                  inputs[i].basedOnSequence = inputs[1].basedOnSequence)
    THEN [state |-> s, settled |-> <<>>, result |-> Rejected(SameSequence)]
    ELSE LET run == MapExecute(s, tools, inputs, 1)
         IN [state |-> run.state, settled |-> run.settled,
             result |-> PromiseAll(run.settled)]

\* The batches a caller may hand to parallel(): a tool and its input per entry.
ToolCalls == UNION {{[tool |-> t, input |-> i] : i \in Inputs(t)} : t \in ToolNames}

Batches == UNION {[1..n -> ToolCalls] : n \in 0..MaxBatch}

\* History: an incrementValue call that returned a frame is recorded with its amount.
Observe(log, tool, input, result) ==
    IF tool = "increment_value" /\ result.status = "fulfilled"
    THEN Append(log, [amount |-> input.amount, frame |-> result.value])
    ELSE log

RECURSIVE ObserveAll(_, _, _, _, _)
ObserveAll(log, tools, inputs, settled, i) ==
    IF i > Len(settled)
    THEN log
    ELSE ObserveAll(Observe(log, tools[i], inputs[i], settled[i]),
                    tools, inputs, settled, i + 1)

\* ----------------------------------------------------------------- callers
\* A caller's record: the call, whether its basedOnSequence was the head when it
\* was sent (anchored) and when its execute ran (current), and its outcome.
Idle == [st |-> "idle", tool |-> "none", input |-> [basedOnSequence |-> 0],
         anchored |-> FALSE, current |-> FALSE, result |-> Rejected("")]

NoBatch == [st |-> "none", tools |-> <<>>, inputs |-> <<>>, at |-> [currentValue |-> 0, currentSequence |-> 0],
            executed |-> 0, result |-> Rejected("")]

\* ============================================================ Frame Protocol v1
\* Most frames a history holds.
MaxFrames == 4
\* Longest action sequence handed to the client side resolution loop.
MaxActions == 2

\* The first frame of the protocol's extended example.
searchPage ==
    [sequence |-> 1, url |-> "/search", type |-> "full_page",
     content |-> "<full page>", selector |-> "", baseFrame |-> 0, error |-> ""]

Urls == {"/search", "/products"}

\* The mutations an agent plans: navigate to a url, or click an element.
FrameActions ==
    {[action |-> "navigate", url |-> u, selector |-> "", basedOnSequence |-> b] :
        u \in Urls, b \in 1..MaxFrames}
      \cup {[action |-> "click", url |-> "", selector |-> "#menu-1", basedOnSequence |-> b] :
              b \in 1..MaxFrames}

headFrame(h) == h[Len(h)]

\* "Actions are only executed if they're based on current state."
isFrameStillValid(h, basedOnSequence) == basedOnSequence = headFrame(h).sequence

FullPages(h, url) == {i \in DOMAIN h : h[i].type = "full_page" /\ h[i].url = url}

baseFrameOldest(h, url) ==
    h[CHOOSE i \in FullPages(h, url) : \A j \in FullPages(h, url) : i <= j].sequence

\* "baseFrame should point to most recent frame where: 1. url matches current
\* frame 2. type is 'full_page'"
baseFrame(h, url) ==
    h[CHOOSE i \in FullPages(h, url) : \A j \in FullPages(h, url) : j <= i].sequence

\* "For mutations: new frame is created": a new URL gives a full page, a DOM
\* change a diff that refers to its base frame, an error an error frame with
\* the current state.
createFrame(h, action, ok) ==
    LET cur == headFrame(h)
        new == [sequence |-> cur.sequence + 1, url |-> cur.url, type |-> "diff",
                content |-> "<changed content>", selector |-> action.selector,
                baseFrame |-> 0, error |-> ""]
    IN IF ~ ok
       THEN [new EXCEPT !.type = "error", !.content = "<current page state>",
                        !.selector = "", !.error = "element_not_found"]
       ELSE IF action.action = "navigate" /\ action.url # cur.url
       THEN [new EXCEPT !.type = "full_page", !.url = action.url,
                        !.content = "<full page>", !.selector = ""]
       ELSE [new EXCEPT !.baseFrame = baseFrame(h, cur.url)]

executeAction(h, action, ok) == Append(h, createFrame(h, action, ok))

RECURSIVE resolveActionsContinues(_, _, _, _)
resolveActionsContinues(h, actions, i, n) ==
    IF i > Len(actions)
    THEN [history |-> h, executed |-> n]
    ELSE IF ~ isFrameStillValid(h, actions[i].basedOnSequence)
    THEN resolveActionsContinues(h, actions, i + 1, n)
    ELSE resolveActionsContinues(executeAction(h, actions[i], TRUE), actions, i + 1, n + 1)

\* for (const action of actions) { if (!isFrameStillValid(...)) break; executeAction(action) }
\* from action i on, n actions executed so far; the actions of the loop succeed
\* (a failing action is a single action, see ExecuteAction).
RECURSIVE resolveActions(_, _, _, _)
resolveActions(h, actions, i, n) ==
    IF i > Len(actions)
    THEN [history |-> h, executed |-> n]
    ELSE IF ~ isFrameStillValid(h, actions[i].basedOnSequence)
    THEN [history |-> h, executed |-> n]
    ELSE resolveActions(executeAction(h, actions[i], TRUE), actions, i + 1, n + 1)

NoResolution == [st |-> "none", anchors |-> <<>>, before |-> 0, executed |-> 0]

\* ============================================================== docs/STREAMING.md
\* Most calls of StreamController.transition in a run of the controller.
MaxCalls == 5
\* Most chunks the chunk source of executeStream delivers.
MaxChunks == 6

\* type StreamState
StreamStates == {"initial", "streaming", "paused", "cancelled", "error", "complete"}

\* isValidTransition, with a way out of 'complete'.
isValidTransitionReopens(from, to) ==
    \/ from = "initial" /\ to \in {"streaming", "error"}
    \/ from = "streaming" /\ to \in {"paused", "complete", "error", "cancelled"}
    \/ from = "paused" /\ to \in {"streaming", "cancelled", "error"}
    \/ from = "complete" /\ to \in {"streaming"}

\* const validTransitions: Record<StreamState, StreamState[]>
validTransitions(from) ==
    CASE from = "initial" -> {"streaming", "error"}
      [] from = "streaming" -> {"paused", "complete", "error", "cancelled"}
      [] from = "paused" -> {"streaming", "cancelled", "error"}
      [] from = "cancelled" -> {}
      [] from = "error" -> {}
      [] from = "complete" -> {}

\* return validTransitions[from].includes(to)
isValidTransition(from, to) == to \in validTransitions(from)

\* The controller as a value: its state, the events it emitted, its last call.
NoTransition == [n |-> 0, from |-> "initial", to |-> "initial", threw |-> FALSE]
Controller == [state |-> streamState, stateChanges |-> stateChanges, last |-> lastTransition]

\* StreamController.transition(newState): throws 'Invalid state transition:
\* from -> to', or sets the state and emits 'stateChange'.
transition(c, newState) ==
    IF ~ isValidTransition(c.state, newState)
    THEN [c EXCEPT !.last = [n |-> c.last.n + 1, from |-> c.state, to |-> newState, threw |-> TRUE]]
    ELSE [state |-> newState,
          stateChanges |-> Append(c.stateChanges, newState),
          last |-> [n |-> c.last.n + 1, from |-> c.state, to |-> newState, threw |-> FALSE]]

\* executeStream: the generator. pc is where it is suspended; chunks counts the
\* chunks the source delivered; observed, exhausted, failed and rejected record
\* that the abort check fired, that the source ended, that the source threw
\* and that an error left the generator.
NotStarted == [pc |-> "start", chunks |-> 0, observed |-> FALSE, exhausted |-> FALSE,
               failed |-> FALSE, rejected |-> FALSE]

\* catch (error) { controller.transition('error'); yield { type: 'error', ... } }
catchError(c, g, ev) ==
    LET c2 == transition(c, "error")
    IN IF c2.last.threw
       THEN [ctl |-> c2, gen |-> [g EXCEPT !.pc = "done", !.rejected = TRUE], events |-> ev]
       ELSE [ctl |-> c2, gen |-> [g EXCEPT !.pc = "yieldedError"], events |-> Append(ev, "error")]

\* controller.transition(to) inside the try block, after which the generator
\* returns; an error it throws is caught by the catch block.
transitionAndReturn(c, g, ev, to) ==
    LET c1 == transition(c, to)
    IN IF c1.last.threw
       THEN catchError(c1, g, ev)
       ELSE [ctl |-> c1, gen |-> [g EXCEPT !.pc = "done"], events |-> ev]

\* The body of the for await loop from the arrival of a chunk to its next
\* suspension: the abort check, the backpressure check, yield { type: 'data' }.
onChunk(c, g, ev, isAborted, needsBackpressure) ==
    LET g1 == [g EXCEPT !.chunks = @ + 1]
    IN IF isAborted
       THEN transitionAndReturn(c, [g1 EXCEPT !.observed = TRUE], ev, "cancelled")
       ELSE IF needsBackpressure
       THEN [ctl |-> c, gen |-> [g1 EXCEPT !.pc = "backpressure"], events |-> ev]
       ELSE [ctl |-> c, gen |-> [g1 EXCEPT !.pc = "yieldedData"], events |-> Append(ev, "data")]

\* The chunk source ends: the loop is left and controller.transition('complete') runs.
onEnd(c, g, ev) == transitionAndReturn(c, [g EXCEPT !.exhausted = TRUE], ev, "complete")

\* The chunk source throws: the catch block runs.
onThrow(c, g, ev) == catchError(c, [g EXCEPT !.failed = TRUE], ev)

\* ================================================================= docs/SYNC.md
\* Most events sent in one session.
MaxSent == 50
\* Largest smallGapThreshold a recovery is configured with.
MaxThreshold == 20
\* Most sessions of one connection.
MaxSessions == 2

\* The manager's counters and log as a value.
SyncState == [lastSent |-> lastSent, lastAck |-> lastAck, eventLog |-> eventLog]

\* recordSent(sequence): the event goes to the log and is the last one sent.
recordSent(s, sequence, session) ==
    [s EXCEPT !.lastSent = sequence,
              !.eventLog = Append(@, [sequence |-> sequence, sessionId |-> session])]

\* recordAck that takes the last acknowledgment as it comes.
recordAckLatest(s, sequence) == [s EXCEPT !.lastAck = sequence]

\* recordAck(sequence): "I've processed everything up through sequence".
recordAck(s, sequence) ==
    [s EXCEPT !.lastAck = IF sequence > @ THEN sequence ELSE @]

\* gap(): lastSent - lastAck
gap(s) == s.lastSent - s.lastAck

\* The choice with the gap looked at before the session change.
selectRecoveryGapFirst(s, sessionChanged, smallGapThreshold) ==
    IF gap(s) <= smallGapThreshold THEN "resend"
    ELSE IF sessionChanged THEN "reset"
    ELSE "snapshot"

\* The recovery strategy: session change first, then the size of the gap.
selectRecovery(s, sessionChanged, smallGapThreshold) ==
    IF sessionChanged THEN "reset"
    ELSE IF gap(s) <= smallGapThreshold THEN "resend"
    ELSE "snapshot"

\* The missed events with the last acknowledged one among them.
missedFromAck(s) ==
    LET Unacked(e) == e.sequence >= s.lastAck
    IN [i \in DOMAIN SelectSeq(s.eventLog, Unacked) |-> SelectSeq(s.eventLog, Unacked)[i].sequence]

\* "Resend missed events from client's event log": the sequence numbers of
\* the logged events above lastAck, in the order of the log.
missed(s) ==
    LET Unacked(e) == e.sequence > s.lastAck
    IN [i \in DOMAIN SelectSeq(s.eventLog, Unacked) |-> SelectSeq(s.eventLog, Unacked)[i].sequence]

\* The recovery-required notification: the strategy and, for resend, the list
\* of missed sequence numbers.
recoveryRequired(s, sessionChanged, smallGapThreshold) ==
    LET strategy == selectRecovery(s, sessionChanged, smallGapThreshold)
    IN [st |-> "required", strategy |-> strategy,
        missed |-> IF strategy = "resend" THEN missed(s) ELSE <<>>,
        sessionChanged |-> sessionChanged, smallGapThreshold |-> smallGapThreshold]

NoAcks == [highest |-> 0, late |-> FALSE]

NoSnapshot == [sessionId |-> 0, type |-> "none"]

\* A new session that goes on with the sequence numbers of the old one.
startSessionKeepsSequence(session, s) ==
    [sessionId |-> session + 1,
     sync |-> [s EXCEPT !.lastAck = 0],
     snapshot |-> [sessionId |-> session + 1, type |-> "full"]]

\* "Always start with fresh sequence numbers; send initial state snapshot":
\* a new session identifier, an empty sequence space (the next event is
\* number 1) and a full snapshot sent in the new session.
startSession(session, s) ==
    [sessionId |-> session + 1,
     sync |-> [lastSent |-> 0, lastAck |-> 0, eventLog |-> <<>>],
     snapshot |-> [sessionId |-> session + 1, type |-> "full"]]

NoRecovery == [st |-> "none", strategy |-> "none", missed |-> <<>>,
               sessionChanged |-> FALSE, smallGapThreshold |-> 0]

\* ========================================================= validation/index.ts
\* Most entries of errors.possibleErrors.
MaxErrors == 2

\* JavaScript values: a scalar is the text of its literal, an object or array
\* that may be undefined is a record with the field defined.
Undefined == [defined |-> FALSE]
Arr(items) == [defined |-> TRUE, items |-> items]
Truthy(v) == v \notin {"undefined", "null", "false", "0", "''"}
IsBoolean(v) == v \in {"true", "false"}
IsNumber(v) == v \in {"0", "0.1"}
\* !a || a.length === 0
NoneIn(a) == ~ a.defined \/ Len(a.items) = 0

\* docs.description.length
DescriptionLength(d) ==
    CASE d = "'A comprehensive tool for testing the validation system'" -> 54
      [] d = "'Test'" -> 4
      [] OTHER -> 0

\* The tool of the validator's tests.
validTool ==
    [version |-> "'1.0.0'",
     documentation |->
        [defined |-> TRUE,
         description |-> "'A comprehensive tool for testing the validation system'",
         examples |-> Arr(<<"Basic test">>),
         limitations |-> Arr(<<"Test limitation">>),
         costImplications |-> [defined |-> TRUE, estimatedCostPerCall |-> "0.1"]],
     errors |->
        [defined |-> TRUE,
         possibleErrors |->
            Arr(<<[code |-> "'TEST_ERROR'", description |-> "'Test error'",
                   isRetryable |-> "true", suggestedUserMessage |-> "'Test message'"]>>),
         retryStrategies |-> Arr(<<"exponential-backoff">>)],
     execution |->
        [defined |-> TRUE, canBeCancelled |-> "true", supportsProgress |-> "true",
         estimatedDuration |-> [defined |-> TRUE, min |-> 1, max |-> 10],
         parallelExecutionLimit |-> [defined |-> FALSE, value |-> 0]],
     state |->
        [defined |-> TRUE, persistsBetweenCalls |-> "true",
         requiredContext |-> Arr(<<"test">>),
         sideEffects |-> Arr(<<[description |-> "'Test effect'", isReversible |-> "true"]>>)]]

\* The tools handed to validateTool: validTool with some of its parts changed.
ErrorTypes ==
    {[code |-> "'TEST'", description |-> "'Test'", isRetryable |-> r,
      suggestedUserMessage |-> "'Test'"] : r \in {"true", "false", "'yes'", "undefined"}}
      \cup {[code |-> "undefined", description |-> "'Test'", isRetryable |-> "true",
             suggestedUserMessage |-> "undefined"]}

ErrorConfigs ==
    {Undefined} \cup
    {[defined |-> TRUE, possibleErrors |-> pe, retryStrategies |-> rs] :
        pe \in {Undefined} \cup {Arr(l) : l \in UNION {[1..n -> ErrorTypes] : n \in 0..MaxErrors}},
        rs \in {Undefined, Arr(<<>>), Arr(<<"exponential-backoff">>)}}

Documentations ==
    {Undefined, validTool.documentation,
     [validTool.documentation EXCEPT !.description = "undefined"],
     [validTool.documentation EXCEPT !.description = "'Test'", !.examples = Arr(<<>>),
                                     !.limitations = Undefined,
                                     !.costImplications = [defined |-> FALSE, estimatedCostPerCall |-> "undefined"]],
     [validTool.documentation EXCEPT !.costImplications.estimatedCostPerCall = "'free'"]}

Executions ==
    {Undefined, validTool.execution,
     [validTool.execution EXCEPT !.estimatedDuration = [defined |-> TRUE, min |-> 10, max |-> 1],
                                 !.supportsProgress = "undefined",
                                 !.parallelExecutionLimit = [defined |-> TRUE, value |-> 0]]}

ToolStates ==
    {Undefined, validTool.state,
     [validTool.state EXCEPT !.requiredContext = Arr(<<>>),
                             !.sideEffects = Arr(<<[description |-> "undefined", isReversible |-> "'no'"]>>)]}

ModernTools ==
    {[version |-> v, documentation |-> d, errors |-> e, execution |-> x, state |-> st] :
        v \in {"'1.0.0'", "undefined"}, d \in Documentations, e \in ErrorConfigs,
        x \in Executions, st \in ToolStates}

\* What a run of the validator collects: this.errors and this.warnings.
NoFindings == [errors |-> <<>>, warnings |-> <<>>]
addError(f, path, message, code) ==
    [f EXCEPT !.errors = Append(@, [path |-> path, message |-> message, code |-> code])]
addWarning(f, path, message, code) ==
    [f EXCEPT !.warnings = Append(@, [path |-> path, message |-> message, code |-> code])]
\* if (cond) add(...)
When(cond, f, g) == IF cond THEN g ELSE f

validateRequired(f, tool) ==
    LET f1 == When(~ Truthy(tool.version), f,
                   addError(f, <<"version">>, "Version is required", "MISSING_REQUIRED"))
        f2 == When(~ tool.documentation.defined, f1,
                   addError(f1, <<"documentation">>, "Documentation is required", "MISSING_REQUIRED"))
        f3 == When(~ tool.errors.defined, f2,
                   addError(f2, <<"errors">>, "Error configuration is required", "MISSING_REQUIRED"))
    IN When(~ tool.execution.defined, f3,
            addError(f3, <<"execution">>, "Execution configuration is required", "MISSING_REQUIRED"))

validateDocumentation(f, docs) ==
    LET f1 == IF ~ Truthy(docs.description)
              THEN addError(f, <<"documentation", "description">>,
                            "Description is required", "MISSING_REQUIRED")
              ELSE When(DescriptionLength(docs.description) < 50, f,
                        addWarning(f, <<"documentation", "description">>,
                                   "Description should be detailed (50+ characters)", "BEST_PRACTICE"))
        f2 == When(NoneIn(docs.examples), f1,
                   addWarning(f1, <<"documentation", "examples">>,
                              "Examples are recommended", "MISSING_RECOMMENDED"))
        f3 == When(NoneIn(docs.limitations), f2,
                   addWarning(f2, <<"documentation", "limitations">>,
                              "Documenting limitations is recommended", "MISSING_RECOMMENDED"))
    IN IF docs.costImplications.defined
       THEN When(~ IsNumber(docs.costImplications.estimatedCostPerCall), f3,
                 addError(f3, <<"documentation", "costImplications", "estimatedCostPerCall">>,
                          "Cost per call must be a number", "INVALID_TYPE"))
       ELSE addWarning(f3, <<"documentation", "costImplications">>,
                       "Cost implications are recommended", "MISSING_RECOMMENDED")

\* The body of possibleErrors.forEach for the entry at index (from 0).
validatePossibleError(f, error, index) ==
    LET at == <<"errors", "possibleErrors", ToString(index)>>
        f1 == When(~ Truthy(error.code), f,
                   addError(f, at \o <<"code">>, "Error code is required", "MISSING_REQUIRED"))
        f2 == When(~ Truthy(error.description), f1,
                   addError(f1, at \o <<"description">>, "Error description is required", "MISSING_REQUIRED"))
        f3 == When(~ IsBoolean(error.isRetryable), f2,
                   addError(f2, at \o <<"isRetryable">>, "isRetryable must be a boolean", "INVALID_TYPE"))
    IN When(~ Truthy(error.suggestedUserMessage), f3,
            addWarning(f3, at \o <<"suggestedUserMessage">>, "User message is recommended", "MISSING_RECOMMENDED"))

RECURSIVE forEachPossibleError(_, _, _)
forEachPossibleError(f, items, i) ==
    IF i > Len(items)
    THEN f
    ELSE forEachPossibleError(validatePossibleError(f, items[i], i - 1), items, i + 1)

\* every in the place of some
everyRetryable(errorConfig) ==
    /\ errorConfig.possibleErrors.defined
    /\ \A i \in DOMAIN errorConfig.possibleErrors.items :
          Truthy(errorConfig.possibleErrors.items[i].isRetryable)

\* errorConfig.possibleErrors?.some(e => e.isRetryable)
someRetryable(errorConfig) ==
    /\ errorConfig.possibleErrors.defined
    /\ \E i \in DOMAIN errorConfig.possibleErrors.items :
          Truthy(errorConfig.possibleErrors.items[i].isRetryable)

validateErrorHandling(f, errorConfig) ==
    LET f1 == When(NoneIn(errorConfig.possibleErrors), f,
                   addError(f, <<"errors", "possibleErrors">>,
                            "At least one possible error must be defined", "MISSING_REQUIRED"))
        f2 == IF errorConfig.possibleErrors.defined
              THEN forEachPossibleError(f1, errorConfig.possibleErrors.items, 1)
              ELSE f1
    IN When(someRetryable(errorConfig) /\ NoneIn(errorConfig.retryStrategies), f2,
            addError(f2, <<"errors", "retryStrategies">>,
                     "Retry strategies required when retryable errors exist", "INCONSISTENT_STATE"))

validateExecution(f, execution) ==
    LET f1 == When(~ IsBoolean(execution.canBeCancelled), f,
                   addError(f, <<"execution", "canBeCancelled">>,
                            "canBeCancelled must be a boolean", "INVALID_TYPE"))
        f2 == When(~ IsBoolean(execution.supportsProgress), f1,
                   addError(f1, <<"execution", "supportsProgress">>,
                            "supportsProgress must be a boolean", "INVALID_TYPE"))
        f3 == When(execution.estimatedDuration.defined
                      /\ execution.estimatedDuration.min >= execution.estimatedDuration.max, f2,
                   addError(f2, <<"execution", "estimatedDuration">>,
                            "Duration min must be less than max", "INVALID_VALUE"))
    IN When(execution.parallelExecutionLimit.defined
               /\ execution.parallelExecutionLimit.value <= 0, f3,
            addError(f3, <<"execution", "parallelExecutionLimit">>,
                     "Parallel execution limit must be positive", "INVALID_VALUE"))

\* The body of sideEffects.forEach for the entry at index (from 0).
validateSideEffect(f, effect, index) ==
    LET at == <<"state", "sideEffects", ToString(index)>>
        f1 == When(~ Truthy(effect.description), f,
                   addError(f, at \o <<"description">>, "Side effect description is required", "MISSING_REQUIRED"))
    IN When(~ IsBoolean(effect.isReversible), f1,
            addError(f1, at \o <<"isReversible">>, "isReversible must be a boolean", "INVALID_TYPE"))

RECURSIVE forEachSideEffect(_, _, _)
forEachSideEffect(f, items, i) ==
    IF i > Len(items)
    THEN f
    ELSE forEachSideEffect(validateSideEffect(f, items[i], i - 1), items, i + 1)

validateState(f, state) ==
    LET f1 == When(~ IsBoolean(state.persistsBetweenCalls), f,
                   addError(f, <<"state", "persistsBetweenCalls">>,
                            "persistsBetweenCalls must be a boolean", "INVALID_TYPE"))
        f2 == When(Truthy(state.persistsBetweenCalls) /\ NoneIn(state.requiredContext), f1,
                   addWarning(f1, <<"state", "requiredContext">>,
                              "Persisting state should specify required context", "BEST_PRACTICE"))
    IN IF state.sideEffects.defined
       THEN forEachSideEffect(f2, state.sideEffects.items, 1)
       ELSE f2

\* ToolValidator.validate(tool): ValidationResult
validate(tool) ==
    LET f1 == validateRequired(NoFindings, tool)
        f2 == IF tool.documentation.defined THEN validateDocumentation(f1, tool.documentation) ELSE f1
        f3 == IF tool.errors.defined THEN validateErrorHandling(f2, tool.errors) ELSE f2
        f4 == IF tool.execution.defined THEN validateExecution(f3, tool.execution) ELSE f3
        f5 == IF tool.state.defined THEN validateState(f4, tool.state) ELSE f4
    IN [isValid |-> Len(f5.errors) = 0, errors |-> f5.errors, warnings |-> f5.warnings]

\* validateTool(tool) of validation/index.ts: a new ToolValidator each call.
validateModernTool(tool) == validate(tool)

NotValidated == [st |-> "none"]

\* =========================================================== compiler/index.ts
\* The tool definitions of tools/web.ts. input maps each declared key to its
\* type; execute is the typeof of the field.
getClickableElementsDefinition ==
    [name |-> "getClickableElements", type |-> "query",
     description |-> "Get all clickable elements on the page",
     input |-> [k \in {} |-> "string"], execute |-> "function"]

clickElementDefinition ==
    [name |-> "clickElement", type |-> "mutation",
     description |-> "Click an element on the page",
     input |-> [k \in {"selector"} |-> "string"], execute |-> "function"]

InputKeys == {"basedOnSequence", "selector"}
InputTypes == {"string", "number", "boolean"}

\* The definitions handed to the compiler: the shipped ones and the ones of
\* the compiler's tests (a field emptied, an input added).
ToolDefinitions ==
    {getClickableElementsDefinition, clickElementDefinition} \cup
    {[name |-> n, type |-> "query", description |-> d, input |-> i, execute |-> e] :
        n \in {"", "get_clickable_elements"},
        d \in {"", "Get all clickable elements on the current page"},
        i \in UNION {[ks -> InputTypes] : ks \in SUBSET InputKeys},
        e \in {"function", "undefined", "string"}}

\* compileToOpenAI(tool)
compileToOpenAI(tool) ==
    [name |-> tool.name, description |-> tool.description,
     parameters |->
        [type |-> "object",
         properties |-> [k \in DOMAIN tool.input |->
                            [type |-> IF tool.input[k] = "number" THEN "number" ELSE "string",
                             description |-> <<"Parameter ", k, " of type ", tool.input[k]>>]],
         required |-> DOMAIN tool.input]]

\* compileToAnthropic(tool)
compileToAnthropic(tool) ==
    [name |-> tool.name, description |-> tool.description,
     parameters |->
        [schema |-> "https://json-schema.org/draft/2020-12/schema",
         type |-> "object",
         properties |-> [k \in DOMAIN tool.input |->
                            [type |-> IF tool.input[k] = "number" THEN "number" ELSE "string",
                             description |-> <<"Parameter ", k, " of type ", tool.input[k]>>]],
         required |-> DOMAIN tool.input]]

\* validateTool(tool): boolean, of the compiler
validateTool(tool) ==
    IF tool.name = "" \/ tool.description = "" THEN FALSE
    ELSE IF Cardinality(DOMAIN tool.input) = 0 THEN FALSE
    ELSE IF tool.execute # "function" THEN FALSE
    ELSE LET inputKeys == DOMAIN tool.input
             openaiKeys == DOMAIN compileToOpenAI(tool).parameters.properties
             anthropicKeys == DOMAIN compileToAnthropic(tool).parameters.properties
         IN (\A k \in inputKeys : k \in openaiKeys) /\ (\A k \in inputKeys : k \in anthropicKeys)

NotCompiled == [st |-> "none"]

\* ============================================ dashboard: SimpleEventBus
MAX_QUEUE_SIZE == 100
MaxEmits == 3
MaxSubscriptions == 2
MaxOverflow == 2

EventTypes == {"cursor.move", "tool.start"}

\* The functions handed to on and once: one that only takes the event, and
\* one that emits an event of the same type from inside, the first time it is
\* called.
Handlers == {"track", "relay"}

\* The state of a bus and of the handlers' closures.
Bus ==
    [handlers |-> handlers, eventQueue |-> eventQueue, emitted |-> emitted,
     onceCalls |-> onceCalls, relayed |-> relayed, delivery |-> delivery]

NoDelivery == [type |-> "", event |-> 0, calls |-> <<>>]

\* The function object an entry of handlers[type] is: the handler itself
\* for on, a closure of its own for once.
Function(entry) ==
    [fn |-> entry.fn, closure |-> IF entry.once THEN entry.id ELSE 0]

\* this.eventQueue.push({ type, event }) that throws the newest entry away.
enqueueDropsNewest(queue, entry) ==
    LET pushed == Append(queue, entry)
    IN  IF Len(pushed) > MAX_QUEUE_SIZE THEN SubSeq(pushed, 1, Len(pushed) - 1) ELSE pushed

\* this.eventQueue.push({ type, event }); if (length > MAX_QUEUE_SIZE) shift()
enqueue(queue, entry) ==
    LET pushed == Append(queue, entry)
    IN  IF Len(pushed) > MAX_QUEUE_SIZE THEN Tail(pushed) ELSE pushed

\* The closure returned by on(type, handler):
\* this.handlers[type] = this.handlers[type].filter(h => h !== handler)
unsubscribe(bus, subscription) ==
    LET Other(h) == Function(h) # Function(subscription)
    IN  [bus EXCEPT !.handlers[subscription.type] = SelectSeq(@, Other)]

RECURSIVE emit(_, _)
RECURSIVE forEach(_, _, _, _)
RECURSIVE invoke(_, _, _)

\* One function of handlers[type] called with the event. The closure of once
\* calls handler(event) and then unsubscribe(); the relaying handler emits.
invoke(bus, entry, event) ==
    LET called == [bus EXCEPT
                      !.delivery.calls = Append(@, [id |-> entry.id, fn |-> entry.fn, event |-> event.id]),
                      !.onceCalls[entry.id] = IF entry.once THEN @ + 1 ELSE @]
        handled == IF entry.fn = "relay" /\ ~called.relayed
                   THEN emit([called EXCEPT !.relayed = TRUE], event.type)
                   ELSE called
    IN  IF entry.once
        THEN unsubscribe(handled, [type |-> event.type, fn |-> entry.fn, once |-> TRUE, id |-> entry.id])
        ELSE handled

\* handlers.forEach(handler => handler(event)), from index i on: the array
\* is the one read before the first call.
forEach(bus, array, i, event) ==
    IF i > Len(array) THEN bus
    ELSE forEach(invoke(bus, array[i], event), array, i + 1, event)

\* emit(type, payload)
emit(bus, type) ==
    LET event == [id |-> bus.emitted + 1, type |-> type]
        queued == [bus EXCEPT !.emitted = @ + 1,
                              !.eventQueue = enqueue(@, [type |-> type, event |-> event])]
    IN  forEach(queued, queued.handlers[type], 1, event)

\* ==================================================== RATE_LIMITING.md
RATE_LIMIT_MS == 1000
MaxWindows == 3

\* The time that passes between two looks at the clock.
Delays == {RATE_LIMIT_MS \div 2, RATE_LIMIT_MS - 1, RATE_LIMIT_MS}

\* emitCursorEvent that notes the time of a dropped event too.
emitCursorEventStampsDropped(limiter, now) ==
    IF now - limiter.lastEventTime < RATE_LIMIT_MS
    THEN [limiter EXCEPT !.lastEventTime = now, !.forward = FALSE]
    ELSE [limiter EXCEPT !.lastEventTime = now, !.forward = TRUE]

\* emitCursorEvent(event), up to its call of eventBus.emit
emitCursorEvent(limiter, now) ==
    IF now - limiter.lastEventTime < RATE_LIMIT_MS
    THEN [limiter EXCEPT !.forward = FALSE]
    ELSE [limiter EXCEPT !.lastEventTime = now, !.forward = TRUE]

Init ==
    /\ currentValue = 0
    /\ currentSequence = 1
    /\ currentFrame = mockPage
    /\ call = [c \in Callers |-> Idle]
    /\ batch = NoBatch
    /\ returned = <<>>
    /\ history = <<searchPage>>
    /\ resolution = NoResolution
    /\ streamState = "initial"
    /\ stateChanges = <<>>
    /\ lastTransition = NoTransition
    /\ gen = NotStarted
    /\ aborted = FALSE
    /\ events = <<>>
    /\ sessionId = 1
    /\ lastSent = 0
    /\ lastAck = 0
    /\ eventLog = <<>>
    /\ ackHistory = NoAcks
    /\ recovery = NoRecovery
    /\ snapshot = NoSnapshot
    /\ validation = NotValidated
    /\ compilation = NotCompiled
    /\ handlers = [type \in EventTypes |-> <<>>]
    /\ eventQueue = <<>>
    /\ emitted = 0
    /\ subscriptions = <<>>
    /\ onceCalls = <<>>
    /\ relayed = FALSE
    /\ delivery = NoDelivery
    /\ clock = RATE_LIMIT_MS
    /\ lastEventTime = 0
    /\ forwarded = {}
    /\ dropped = {}

\* A caller sends a tool call; it is in flight until the tool's execute runs.
Submit(c, tool, input) ==
    /\ call[c].st = "idle"
    /\ call' = [call EXCEPT ![c] =
                  [st |-> "submitted", tool |-> tool, input |-> input,
                   anchored |-> (input.basedOnSequence = HeadOf(tool)),
                   current |-> FALSE, result |-> Rejected("")]]
    /\ UNCHANGED <<currentValue, currentSequence, currentFrame, batch, returned>>
    /\ UNCHANGED otherThanTools

\* The tool's execute runs on the call in flight: one atomic step.
Execute(c) ==
    /\ call[c].st = "submitted"
    /\ LET r == execute(call[c].tool, ModuleState, call[c].input)
       IN /\ r.state.currentSequence <= MaxSeq
          /\ currentValue' = r.state.currentValue
          /\ currentSequence' = r.state.currentSequence
          /\ call' = [call EXCEPT ![c].st = "done", ![c].current = (call[c].input.basedOnSequence = HeadOf(call[c].tool)),
                                   ![c].result = r.result]
          /\ returned' = Observe(returned, call[c].tool, call[c].input, r.result)
    /\ UNCHANGED <<currentFrame, batch>>
    /\ UNCHANGED otherThanTools

\* The caller takes the outcome of its call and is free to call again.
Settle(c) ==
    /\ call[c].st = "done"
    /\ call' = [call EXCEPT ![c] = Idle]
    /\ UNCHANGED <<currentValue, currentSequence, currentFrame, batch, returned>>
    /\ UNCHANGED otherThanTools

Next ==
    \/ \E c \in Callers, tool \in ToolNames \ {"getClickableElements"} :
          \E input \in Inputs(tool) : Submit(c, tool, input)
    \/ \E c \in Callers : Execute(c)
    \/ \E c \in Callers : Settle(c)

Spec == Init /\ [][Next]_vars

\* ======================================================= the integer stream
\* Caller c's call was run by the step: its tool's execute was invoked.
Executes(c, tool) ==
    /\ call[c].st = "submitted"
    /\ call[c].tool = tool
    /\ call'[c].st = "done"

\* Two increment_value calls with one basedOnSequence, both sent while it was
\* the head, and still the head when the first of the two was executed.
ConcurrentPair(c, d) ==
    /\ c # d
    /\ call[c].st = "done" /\ call[d].st = "done"
    /\ call[c].tool = "increment_value" /\ call[d].tool = "increment_value"
    /\ call[c].input.basedOnSequence = call[d].input.basedOnSequence
    /\ call[c].anchored /\ call[d].anchored
    /\ call[c].current

\* C1: of two concurrent increment_value calls anchored to the same head
\* sequence b, exactly one returns a frame (with sequence b + 1, the head
\* having advanced once) and the other fails with "Invalid sequence number";
\* never both succeed and never both fail.
C1_ExactlyOneSucceeds ==
    \A c, d \in Callers :
        ConcurrentPair(c, d) =>
            /\ call[c].result.status = "fulfilled"
            /\ call[c].result.value.sequence = call[c].input.basedOnSequence + 1
            /\ call[d].result.status = "rejected"
            /\ call[d].result.error = InvalidSequence
            /\ ~ call[d].current
            /\ Cardinality({i \in DOMAIN returned :
                   returned[i].frame.sequence = call[c].input.basedOnSequence + 1}) = 1

C1_Witness ==
    \E c, d \in Callers :
        /\ ConcurrentPair(c, d)
        /\ call[c].result.status = "fulfilled"
        /\ call[d].result.status = "rejected"
        /\ currentSequence = call[c].input.basedOnSequence + 1

\* C2: the head sequence never decreases, a step in which increment_value
\* returns a frame raises it by exactly 1 and the frame carries the new head,
\* and the frames returned by successful mutations carry consecutive, pairwise
\* different sequence numbers.
C2_SequenceMonotonic ==
    [][ /\ currentSequence' >= currentSequence
        /\ Len(returned') > Len(returned) =>
              /\ currentSequence' = currentSequence + 1
              /\ returned'[Len(returned')].frame.sequence = currentSequence'
        /\ \A i, j \in DOMAIN returned' :
              i < j => returned'[i].frame.sequence < returned'[j].frame.sequence
        /\ \A i \in DOMAIN returned' :
              i > 1 => returned'[i].frame.sequence = returned'[i - 1].frame.sequence + 1
      ]_vars

C2_Witness ==
    /\ Len(returned) = 2
    /\ currentSequence = 3
    /\ \E c \in Callers : call[c].st = "done" /\ call[c].tool = "get_current_value"

RECURSIVE SumAmounts(_)
SumAmounts(log) ==
    IF log = <<>> THEN 0 ELSE log[1].amount + SumAmounts(Tail(log))

\* C3: the head sequence is 1 plus the number of increment_value calls that
\* returned a frame, and the value is the sum of the amounts of those calls;
\* a call that failed changed neither.
C3_HeadCountsCommits ==
    /\ currentSequence = 1 + Len(returned)
    /\ currentValue = SumAmounts(returned)

C3_Witness ==
    /\ Len(returned) = 2
    /\ returned[1].amount # returned[2].amount
    /\ \E c \in Callers :
          /\ call[c].st = "done"
          /\ call[c].tool = "increment_value"
          /\ call[c].result.status = "rejected"

\* C4: an increment_value call whose basedOnSequence is not the head sequence
\* fails with "Invalid sequence number" and leaves the head sequence and the
\* value as they were.
C4_StaleIncrementRejected ==
    [][ \A c \in Callers :
          (Executes(c, "increment_value")
              /\ call[c].input.basedOnSequence # currentSequence) =>
            /\ call'[c].result.status = "rejected"
            /\ call'[c].result.error = InvalidSequence
            /\ currentSequence' = currentSequence
            /\ currentValue' = currentValue
            /\ returned' = returned
      ]_vars

\* The spec's example: increment(5, 1) produced sequence 2, then
\* increment(1, 1) failed and the sequence is still 2.
C4_Witness ==
    /\ currentSequence = 2
    /\ currentValue = 5
    /\ Len(returned) = 1
    /\ returned[1].amount = 5
    /\ returned[1].frame.sequence = 2
    /\ \E c \in Callers :
          /\ call[c].st = "done"
          /\ call[c].tool = "increment_value"
          /\ call[c].input = [amount |-> 1, basedOnSequence |-> 1]
          /\ call[c].result.status = "rejected"
          /\ call[c].result.error = InvalidSequence

\* C5: a call of a tool of type 'mutation' (increment_value, clickElement) is
\* executed successfully only if its basedOnSequence was the head sequence when
\* its execute ran.
C5_MutationsAnchored ==
    \A c \in Callers :
        (call[c].st = "done"
            /\ ToolType(call[c].tool) = "mutation"
            /\ call[c].result.status = "fulfilled") => call[c].current

\* C7: get_current_value returns a frame iff its basedOnSequence is the head
\* sequence, the frame carries that sequence (and the current value); so a
\* query anchored to a sequence that a commit has left behind is rejected.
C7_QueryIffCurrent ==
    [][ \A c \in Callers :
          Executes(c, "get_current_value") =>
            /\ call'[c].result.status = "fulfilled"
                  <=> call[c].input.basedOnSequence = currentSequence
            /\ call'[c].result.status = "fulfilled" =>
                  /\ call'[c].result.value.sequence = call[c].input.basedOnSequence
                  /\ call'[c].result.value.value = currentValue
            /\ call'[c].result.status = "rejected" =>
                  call'[c].result.error = InvalidSequence
      ]_vars

C7_Witness ==
    \E c, d \in Callers :
        /\ call[c].st = "done" /\ call[c].tool = "get_current_value"
        /\ call[c].anchored /\ ~ call[c].current
        /\ call[c].result.status = "rejected"
        /\ call[d].st = "done" /\ call[d].tool = "get_current_value"
        /\ call[d].result.status = "fulfilled"
        /\ call[d].input.basedOnSequence = call[c].input.basedOnSequence + 1

\* ------------------------------------------------------ batches of queries
\* A caller calls parallel(tools, inputs): the checks and every execute run in
\* this one step; the promise it returns is delivered later.
Parallel(tools, inputs) ==
    /\ batch.st = "none"
    /\ LET r == parallel(ModuleState, tools, inputs)
       IN /\ r.state.currentSequence <= MaxSeq
          /\ currentValue' = r.state.currentValue
          /\ currentSequence' = r.state.currentSequence
          /\ batch' = [st |-> "dispatched", tools |-> tools, inputs |-> inputs,
                       at |-> ModuleState, executed |-> Len(r.settled),
                       result |-> r.result]
          /\ returned' = ObserveAll(returned, tools, inputs, r.settled, 1)
    /\ UNCHANGED <<currentFrame, call>>
    /\ UNCHANGED otherThanTools

\* The promise of the batch is delivered to its caller.
Deliver ==
    /\ batch.st = "dispatched"
    /\ batch' = NoBatch
    /\ UNCHANGED <<currentValue, currentSequence, currentFrame, call, returned>>
    /\ UNCHANGED otherThanTools

\* Another task calls a mutation tool directly, between two steps of the batch's caller.
Mutate(tool, input) ==
    /\ LET r == execute(tool, ModuleState, input)
       IN /\ r.state.currentSequence <= MaxSeq
          /\ currentValue' = r.state.currentValue
          /\ currentSequence' = r.state.currentSequence
          /\ returned' = Observe(returned, tool, input, r.result)
    /\ UNCHANGED <<currentFrame, call, batch>>
    /\ UNCHANGED otherThanTools

NextParallel ==
    \/ /\ batch.st = "none"
       /\ \E b \in Batches :
             Parallel([i \in DOMAIN b |-> b[i].tool], [i \in DOMAIN b |-> b[i].input])
    \/ Deliver
    \/ \E tool \in {t \in ToolNames : ToolType(t) = "mutation"} :
          \E input \in Inputs(tool) : Mutate(tool, input)

SpecParallel == Init /\ [][NextParallel]_vars

\* ================================================================ parallel()
\* The step is a call of parallel(): a batch is dispatched.
Dispatches == batch.st = "none" /\ batch'.st = "dispatched"

AllQueries(tools) == \A i \in DOMAIN tools : ToolType(tools[i]) = "query"

SameSequences(inputs) ==
    \A i, j \in DOMAIN inputs : inputs[i].basedOnSequence = inputs[j].basedOnSequence

\* C6: a batch of queries leaves the head sequence and the value unchanged,
\* whether its queries return frames or are rejected; when the queries share
\* one basedOnSequence every one of them is executed, and they all return
\* (the batch is fulfilled with one result per query) unless a
\* get_current_value among them is anchored to a sequence that is not the head.
C6_QueriesChangeNothing ==
    [][ (Dispatches /\ AllQueries(batch'.tools)) =>
          /\ currentSequence' = currentSequence
          /\ currentValue' = currentValue
          /\ returned' = returned
          /\ SameSequences(batch'.inputs) =>
                /\ batch'.executed = Len(batch'.tools)
                /\ batch'.result.status = "fulfilled" <=>
                      \A i \in DOMAIN batch'.tools :
                          batch'.tools[i] = "get_current_value" =>
                              batch'.inputs[i].basedOnSequence = currentSequence
                /\ batch'.result.status = "fulfilled" =>
                      Len(batch'.result.value) = Len(batch'.tools)
      ]_vars

C6_Witness ==
    /\ batch.st = "dispatched"
    /\ batch.tools = <<"get_current_value", "get_current_value">>
    /\ batch.result.status = "fulfilled"
    /\ Len(batch.result.value) = 2
    /\ batch.at.currentSequence = 2
    /\ currentSequence = 2

\* C8: the frames that the get_current_value queries of one batch return all
\* carry the batch's shared basedOnSequence, which is the head sequence at
\* dispatch, and the value at dispatch, whatever mutations commit before the
\* batch is delivered.
C8_BatchSeesOneState ==
    (batch.st = "dispatched" /\ batch.result.status = "fulfilled") =>
        \A i \in DOMAIN batch.tools :
            batch.tools[i] = "get_current_value" =>
                /\ batch.result.value[i].sequence = batch.inputs[1].basedOnSequence
                /\ batch.result.value[i].sequence = batch.at.currentSequence
                /\ batch.result.value[i].value = batch.at.currentValue
                /\ \A j \in DOMAIN batch.tools :
                      batch.tools[j] = "get_current_value" =>
                          batch.result.value[j] = batch.result.value[i]

C8_Witness ==
    /\ batch.st = "dispatched"
    /\ batch.tools = <<"get_current_value", "get_current_value">>
    /\ batch.result.status = "fulfilled"
    /\ batch.at.currentSequence = 2
    /\ currentSequence = 3
    /\ currentValue # batch.at.currentValue

\* C9: a batch of query tools whose inputs do not all carry the same
\* basedOnSequence is rejected ("All parallel tools must use the same sequence
\* number") and no tool's execute has been invoked.
C9_DifferingSequencesRejected ==
    (batch.st = "dispatched" /\ AllQueries(batch.tools)
        /\ ~ SameSequences(batch.inputs)) =>
        /\ batch.result.status = "rejected"
        /\ batch.result.error = SameSequence
        /\ batch.executed = 0

C9_Witness ==
    /\ batch.st = "dispatched"
    /\ batch.tools = <<"get_current_value", "getClickableElements">>
    /\ ~ SameSequences(batch.inputs)
    /\ batch.inputs[1].basedOnSequence = batch.at.currentSequence
    /\ batch.result.status = "rejected"

\* C10: a batch that contains a mutation tool is rejected ("parallel() can only
\* be used with query tools"), no tool's execute has been invoked, and the head
\* sequence and the value are unchanged.
C10_MutationInBatchRejected ==
    [][ (Dispatches /\ ~ AllQueries(batch'.tools)) =>
          /\ batch'.result.status = "rejected"
          /\ batch'.result.error = QueryOnly
          /\ batch'.executed = 0
          /\ currentSequence' = currentSequence
          /\ currentValue' = currentValue
          /\ returned' = returned
      ]_vars

C10_Witness ==
    /\ batch.st = "dispatched"
    /\ batch.tools = <<"increment_value", "increment_value">>
    /\ SameSequences(batch.inputs)
    /\ batch.inputs[1].basedOnSequence = batch.at.currentSequence
    /\ batch.result.status = "rejected"
    /\ currentSequence = batch.at.currentSequence

\* ====================================================== client side resolution
otherThanFrames == <<currentValue, currentSequence, currentFrame, call, batch, returned, streamVars, syncVars, validatorVars, compilerVars, busVars, limiterVars>>

\* For single action: if (isFrameStillValid(action.basedOnSequence)) executeAction(action)
ExecuteAction(action, ok) ==
    /\ resolution.st = "none"
    /\ Len(history) < MaxFrames
    /\ isFrameStillValid(history, action.basedOnSequence)
    /\ history' = executeAction(history, action, ok)
    /\ UNCHANGED <<resolution, otherThanFrames>>

\* For action sequence: the loop runs over the whole list in one step.
Resolve(actions) ==
    /\ resolution.st = "none"
    /\ LET r == resolveActions(history, actions, 1, 0)
       IN /\ Len(r.history) <= MaxFrames
          /\ history' = r.history
          /\ resolution' = [st |-> "resolved",
                            anchors |-> [i \in DOMAIN actions |-> actions[i].basedOnSequence],
                            before |-> Len(history), executed |-> r.executed]
    /\ UNCHANGED otherThanFrames

\* The agent takes the outcome of the loop.
Report ==
    /\ resolution.st = "resolved"
    /\ resolution' = NoResolution
    /\ UNCHANGED <<history, otherThanFrames>>

ActionLists == UNION {[1..n -> FrameActions] : n \in 0..MaxActions}

NextFrames ==
    \/ /\ resolution.st = "none"
       /\ \E action \in FrameActions, ok \in BOOLEAN : ExecuteAction(action, ok)
    \/ /\ resolution.st = "none"
       /\ \E actions \in ActionLists : Resolve(actions)
    \/ Report

SpecFrames == Init /\ [][NextFrames]_vars

\* The step is a run of the resolution loop.
Resolves == resolution.st = "none" /\ resolution'.st = "resolved"

\* C11: the loop executes the actions in list order until the first one whose
\* basedOnSequence is not the sequence of the head frame at that moment; that
\* action and the later ones are not executed, and the frames of the earlier
\* ones stay in the history.
C11_LoopStopsAtFirstInvalid ==
    [][ Resolves =>
          LET r == resolution'
              k == r.executed
          IN /\ k \in 0..Len(r.anchors)
             /\ Len(history') = Len(history) + k
             /\ SubSeq(history', 1, Len(history)) = history
             /\ \A i \in 1..k : r.anchors[i] = history'[Len(history) + i - 1].sequence
             /\ k < Len(r.anchors) => r.anchors[k + 1] # history'[Len(history) + k].sequence
      ]_vars

C11_Witness ==
    /\ resolution.st = "resolved"
    /\ Len(resolution.anchors) = 2
    /\ resolution.executed = 1
    /\ resolution.anchors[2] # headFrame(history).sequence
    /\ Len(history) = resolution.before + 1

\* C13: in every history, a diff frame's baseFrame is the sequence of an
\* earlier full_page frame with the same url, the most recent one; a frame
\* whose url has no earlier full_page frame is not a diff.
C13_BaseFrameIsLatestFullPage ==
    \A i \in DOMAIN history :
        LET earlier == {j \in 1..(i - 1) : history[j].type = "full_page" /\ history[j].url = history[i].url}
        IN /\ history[i].type = "diff" =>
                \E j \in earlier :
                    /\ history[j].sequence = history[i].baseFrame
                    /\ history[j].sequence < history[i].sequence
                    /\ \A k \in earlier : history[k].sequence <= history[j].sequence
           /\ earlier = {} => history[i].type # "diff"

C13_Witness ==
    /\ Len(history) = 4
    /\ history[1].url = history[3].url
    /\ history[3].type = "full_page"
    /\ history[4].type = "diff"
    /\ history[4].baseFrame = 3

\* The step is an action whose executor failed: an error frame was created.
Fails == Len(history') = Len(history) + 1 /\ headFrame(history').type = "error"

\* C12: when the executor of a mutation fails, the outcome is an error frame
\* with the current state, recorded in the history, and the head sequence does
\* not advance.
C12_FailureDoesNotAdvance ==
    [][ Fails =>
          /\ SubSeq(history', 1, Len(history)) = history
          /\ headFrame(history').url = headFrame(history).url
          /\ headFrame(history').content = "<current page state>"
          /\ headFrame(history').sequence = headFrame(history).sequence
      ]_vars

\* ============================================================ thought protocol
\* C14: every tool frame has a thought frame with the same sequence number.
C14_ToolFrameHasThought ==
    \A c \in Callers :
        (call[c].st = "done"
            /\ call[c].tool \in {"get_current_value", "increment_value"}
            /\ call[c].result.status = "fulfilled")
        => \E t \in thoughtFrames(call[c].tool, call[c].result.value) :
              t.sequence = call[c].result.value.sequence

\* =========================================================== StreamController
otherThanStream == <<currentValue, currentSequence, currentFrame, call, batch, returned, frameVars, syncVars, validatorVars, compilerVars, busVars, limiterVars>>

\* Some caller calls controller.transition(newState).
Transition(newState) ==
    /\ lastTransition.n < MaxCalls
    /\ LET c == transition(Controller, newState)
       IN /\ streamState' = c.state
          /\ stateChanges' = c.stateChanges
          /\ lastTransition' = c.last
    /\ UNCHANGED <<gen, aborted, events, otherThanStream>>

NextController == \E newState \in StreamStates : Transition(newState)

SpecController == Init /\ [][NextController]_vars

\* The transitions the Execution State may take.
AllowedTransitions ==
    {<<"initial", "streaming">>, <<"initial", "error">>,
     <<"streaming", "paused">>, <<"streaming", "complete">>,
     <<"streaming", "error">>, <<"streaming", "cancelled">>,
     <<"paused", "streaming">>, <<"paused", "cancelled">>, <<"paused", "error">>}

TerminalStates == {"cancelled", "error", "complete"}

\* C15: the state changes only along the allowed transitions; a call of
\* transition to any other target throws, leaves the state unchanged and emits
\* no stateChange event; a state of cancelled, error or complete never changes.
C15_OnlyAllowedTransitions ==
    [][ /\ streamState' # streamState => <<streamState, streamState'>> \in AllowedTransitions
        /\ streamState \in TerminalStates => streamState' = streamState
        /\ lastTransition'.n # lastTransition.n =>
              IF <<streamState, lastTransition'.to>> \in AllowedTransitions
              THEN /\ ~ lastTransition'.threw
                   /\ streamState' = lastTransition'.to
                   /\ stateChanges' = Append(stateChanges, streamState')
              ELSE /\ lastTransition'.threw
                   /\ streamState' = streamState
                   /\ stateChanges' = stateChanges
      ]_vars

C15_Witness ==
    /\ streamState = "complete"
    /\ stateChanges = <<"streaming", "paused", "streaming", "complete">>
    /\ lastTransition.threw
    /\ lastTransition.from = "complete"
    /\ lastTransition.to = "streaming"

\* ============================================================== executeStream
\* The generator moves to what step computed.
Becomes(step) ==
    /\ streamState' = step.ctl.state
    /\ stateChanges' = step.ctl.stateChanges
    /\ lastTransition' = step.ctl.last
    /\ gen' = step.gen
    /\ events' = step.events

\* The consumer's first next(): the controller is created and the generator
\* waits for the first chunk.
Start ==
    /\ gen.pc = "start"
    /\ gen' = [gen EXCEPT !.pc = "awaiting"]
    /\ UNCHANGED <<controllerVars, aborted, events, otherThanStream>>

\* options.signal is aborted, at any moment of the stream.
Abort ==
    /\ gen.pc # "done"
    /\ ~ aborted
    /\ aborted' = TRUE
    /\ UNCHANGED <<controllerVars, gen, events, otherThanStream>>

\* generateImage(input) delivers a chunk.
Chunk(needsBackpressure) ==
    /\ gen.pc = "awaiting"
    /\ gen.chunks < MaxChunks
    /\ Becomes(onChunk(Controller, gen, events, aborted, needsBackpressure))
    /\ UNCHANGED <<aborted, otherThanStream>>

\* generateImage(input) has no more chunks.
End ==
    /\ gen.pc = "awaiting"
    /\ Becomes(onEnd(Controller, gen, events))
    /\ UNCHANGED <<aborted, otherThanStream>>

\* generateImage(input) throws.
Throw ==
    /\ gen.pc = "awaiting"
    /\ Becomes(onThrow(Controller, gen, events))
    /\ UNCHANGED <<aborted, otherThanStream>>

\* await applyBackpressureStrategy(...) is over: yield { type: 'data', chunk }
Relieved ==
    /\ gen.pc = "backpressure"
    /\ gen' = [gen EXCEPT !.pc = "yieldedData"]
    /\ events' = Append(events, "data")
    /\ UNCHANGED <<controllerVars, aborted, otherThanStream>>

\* The consumer's next() after a yield.
Resume ==
    /\ \/ /\ gen.pc = "yieldedData"
          /\ gen' = [gen EXCEPT !.pc = "yieldedProgress"]
          /\ events' = Append(events, "progress")
       \/ /\ gen.pc = "yieldedProgress"
          /\ gen' = [gen EXCEPT !.pc = "awaiting"]
          /\ events' = events
       \/ /\ gen.pc = "yieldedError"
          /\ gen' = [gen EXCEPT !.pc = "done"]
          /\ events' = events
    /\ UNCHANGED <<controllerVars, aborted, otherThanStream>>

NextStream ==
    \/ Start
    \/ Abort
    \/ \E needsBackpressure \in BOOLEAN : Chunk(needsBackpressure)
    \/ End
    \/ Throw
    \/ Relieved
    \/ Resume

SpecStream == Init /\ [][NextStream]_vars

Count(ev, type) == Cardinality({i \in DOMAIN ev : ev[i] = type})

\* C16: when the abort check between two chunks finds the signal aborted, the
\* executor stops before emitting that chunk, and the stream ends in the state
\* cancelled with no error event.
C16_CancelledEndsCancelled ==
    (gen.pc = "done" /\ gen.observed) =>
        /\ Count(events, "data") = gen.chunks - 1
        /\ streamState = "cancelled"
        /\ Count(events, "error") = 0

\* C17: when the chunk source ends without a failure and without cancellation,
\* the stream ends in the state complete, with one data event per chunk and no
\* error event.
C17_ExhaustedEndsComplete ==
    (gen.pc = "done" /\ gen.exhausted /\ ~ gen.failed /\ ~ gen.observed /\ ~ aborted) =>
        /\ streamState = "complete"
        /\ Count(events, "data") = gen.chunks
        /\ Count(events, "error") = 0

\* The generator is always at one of its suspension points.
StreamTypeOK ==
    gen.pc \in {"start", "awaiting", "backpressure", "yieldedData", "yieldedProgress", "yieldedError", "done"}

\* ======================================================== session sync manager
otherThanSync == <<currentValue, currentSequence, currentFrame, call, batch, returned, frameVars, streamVars, validatorVars, compilerVars, busVars, limiterVars>>

\* The client sends its next event.
RecordSent ==
    /\ recovery.st = "none"
    /\ lastSent < MaxSent
    /\ LET s == recordSent(SyncState, lastSent + 1, sessionId)
       IN /\ lastSent' = s.lastSent
          /\ eventLog' = s.eventLog
    /\ UNCHANGED <<sessionId, lastAck, ackHistory, recovery, snapshot, otherThanSync>>

\* An acknowledgment of a sent event arrives; acknowledgments may arrive in any order.
RecordAck(sequence) ==
    /\ recovery.st = "none"
    /\ lastAck' = recordAck(SyncState, sequence).lastAck
    /\ ackHistory' = [highest |-> IF sequence > ackHistory.highest THEN sequence ELSE ackHistory.highest,
                      late |-> ackHistory.late \/ sequence < ackHistory.highest]
    /\ UNCHANGED <<sessionId, lastSent, eventLog, recovery, snapshot, otherThanSync>>

\* The manager is asked for a recovery and emits the notification.
Recover(sessionChanged, smallGapThreshold) ==
    /\ recovery.st = "none"
    /\ recovery' = recoveryRequired(SyncState, sessionChanged, smallGapThreshold)
    /\ UNCHANGED <<sessionId, lastSent, lastAck, eventLog, ackHistory, snapshot, otherThanSync>>

\* The client carries the recovery out: a resend leaves the session as it is;
\* a snapshot and a reset start a new session with fresh sequence numbers.
Recovered ==
    /\ recovery.st = "required"
    /\ recovery' = NoRecovery
    /\ IF recovery.strategy = "resend"
       THEN UNCHANGED <<sessionId, lastSent, lastAck, eventLog, ackHistory, snapshot>>
       ELSE /\ sessionId < MaxSessions
            /\ LET n == startSession(sessionId, SyncState)
               IN /\ sessionId' = n.sessionId
                  /\ lastSent' = n.sync.lastSent
                  /\ lastAck' = n.sync.lastAck
                  /\ eventLog' = n.sync.eventLog
                  /\ snapshot' = n.snapshot
            /\ ackHistory' = NoAcks
    /\ UNCHANGED otherThanSync

NextSync ==
    \/ RecordSent
    \/ /\ recovery.st = "none"
       /\ \E sequence \in 1..lastSent : RecordAck(sequence)
    \/ /\ recovery.st = "none"
       /\ \E sessionChanged \in BOOLEAN, smallGapThreshold \in 0..MaxThreshold :
             Recover(sessionChanged, smallGapThreshold)
    \/ Recovered

SpecSync == Init /\ [][NextSync]_vars

\* C18: within a session lastAck never decreases, and it is the highest
\* sequence acknowledged so far, in whatever order the acknowledgments arrive.
C18_LastAckMonotonic ==
    [][ /\ sessionId' = sessionId => lastAck' >= lastAck
        /\ lastAck' = ackHistory'.highest
      ]_vars

\* An acknowledgment that arrived after a higher one.
C18_Witness ==
    /\ ackHistory.late
    /\ ackHistory.highest = 3
    /\ lastAck = 3

\* The step emits a recovery-required notification.
Recovers == recovery.st = "none" /\ recovery'.st = "required"

\* C19: the strategy is reset if the session changed, otherwise resend if
\* lastSent - lastAck <= smallGapThreshold, otherwise snapshot (lastSent = 50,
\* lastAck = 10, threshold 20: snapshot; lastAck = 45: resend).
C19_StrategyByFlagThenGap ==
    [][ Recovers =>
          LET r == recovery'
          IN /\ r.strategy \in {"resend", "snapshot", "reset"}
             /\ r.strategy = "reset" <=> r.sessionChanged
             /\ r.strategy = "resend" <=>
                   (~ r.sessionChanged /\ lastSent - lastAck <= r.smallGapThreshold)
             /\ r.strategy = "snapshot" <=>
                   (~ r.sessionChanged /\ lastSent - lastAck > r.smallGapThreshold)
             /\ (lastSent = 50 /\ lastAck = 10 /\ r.smallGapThreshold = 20 /\ ~ r.sessionChanged)
                   => r.strategy = "snapshot"
             /\ (lastSent = 50 /\ lastAck = 45 /\ r.smallGapThreshold = 20 /\ ~ r.sessionChanged)
                   => r.strategy = "resend"
      ]_vars

C19_Witness ==
    /\ recovery.st = "required"
    /\ lastSent = 50
    /\ lastAck = 10
    /\ recovery.smallGapThreshold = 20
    /\ ~ recovery.sessionChanged
    /\ recovery.strategy = "snapshot"

\* C20: a resend notification lists exactly the sequence numbers lastAck + 1
\* to lastSent, in ascending order.
C20_ResendListsMissed ==
    [][ (Recovers /\ recovery'.strategy = "resend") =>
          /\ Len(recovery'.missed) = lastSent - lastAck
          /\ \A i \in DOMAIN recovery'.missed : recovery'.missed[i] = lastAck + i
      ]_vars

C20_Witness ==
    /\ recovery.st = "required"
    /\ recovery.strategy = "resend"
    /\ lastSent = 50
    /\ lastAck = 45
    /\ recovery.missed = <<46, 47, 48, 49, 50>>

\* ===================================================== parallel(), stale batches
\* The head a tool's basedOnSequence is anchored to, as it was when the batch
\* was dispatched.
HeadAtDispatch(tool) ==
    IF tool \in {"get_current_value", "increment_value"}
    THEN batch.at.currentSequence
    ELSE currentFrame.sequence

\* C25: a batch of query tools whose inputs all carry the same basedOnSequence,
\* which is not the head, is rejected as a whole, whatever the query tools are.
C25_StaleBatchRejected ==
    (batch.st = "dispatched" /\ Len(batch.tools) > 0
        /\ AllQueries(batch.tools) /\ SameSequences(batch.inputs)
        /\ \A i \in DOMAIN batch.tools :
              batch.inputs[i].basedOnSequence # HeadAtDispatch(batch.tools[i]))
    => batch.result.status = "rejected"

\* C26: parallel() checks the tool types before the sequences: a batch with a
\* mutation tool and differing basedOnSequence values is rejected with the
\* query-only error, and a batch rejected by either check has had no execute
\* invoked.
C26_TypeCheckedBeforeSequence ==
    [][ Dispatches =>
          /\ (~ AllQueries(batch'.tools) /\ ~ SameSequences(batch'.inputs)) =>
                /\ batch'.result.status = "rejected"
                /\ batch'.result.error = QueryOnly
                /\ batch'.executed = 0
          /\ (~ AllQueries(batch'.tools) \/ ~ SameSequences(batch'.inputs)) =>
                /\ batch'.result.error \in {QueryOnly, SameSequence}
                /\ batch'.executed = 0
                /\ returned' = returned
      ]_vars

C26_Witness ==
    /\ batch.st = "dispatched"
    /\ batch.tools = <<"get_current_value", "increment_value">>
    /\ batch.inputs[1].basedOnSequence # batch.inputs[2].basedOnSequence
    /\ batch.result.error = QueryOnly
    /\ batch.executed = 0

\* ================================================================ new sessions
\* C21: a session change discards the sequence space: the session identifier
\* is new, the first event of the new session has sequence 1, and a full
\* snapshot is sent in the new session; within a session the sender's sequence
\* is never rewound.
C21_SessionChangeResets ==
    [][ /\ (recovery.strategy = "reset" /\ recovery'.st = "none") => sessionId' # sessionId
        /\ sessionId' # sessionId =>
              /\ sessionId' > sessionId
              /\ lastSent' = 0
              /\ eventLog' = <<>>
              /\ snapshot' = [sessionId |-> sessionId', type |-> "full"]
        /\ (eventLog = <<>> /\ eventLog' # <<>>) =>
              eventLog' = <<[sequence |-> 1, sessionId |-> sessionId]>>
        /\ sessionId' = sessionId => lastSent' >= lastSent
      ]_vars

\* The first event of a second session.
C21_Witness ==
    /\ sessionId = 2
    /\ snapshot = [sessionId |-> 2, type |-> "full"]
    /\ eventLog = <<[sequence |-> 1, sessionId |-> 2]>>
    /\ lastSent = 1

\* ============================================================== ToolValidator
otherThanValidator == <<currentValue, currentSequence, currentFrame, call, batch, returned, frameVars, streamVars, syncVars, compilerVars, busVars, limiterVars>>

\* A caller validates a tool.
ValidateTool(tool) ==
    /\ validation.st = "none"
    /\ validation' = [st |-> "validated", tool |-> tool, result |-> validateModernTool(tool)]
    /\ UNCHANGED otherThanValidator

\* The caller has read the result.
Validated ==
    /\ validation.st = "validated"
    /\ validation' = NotValidated
    /\ UNCHANGED otherThanValidator

NextValidator ==
    \/ /\ validation.st = "none"
       /\ \E tool \in ModernTools : ValidateTool(tool)
    \/ Validated

SpecValidator == Init /\ [][NextValidator]_vars

\* The result reports INCONSISTENT_STATE at errors.retryStrategies.
ReportsMissingStrategies(result) ==
    \E i \in DOMAIN result.errors :
        /\ result.errors[i].code = "INCONSISTENT_STATE"
        /\ result.errors[i].path = <<"errors", "retryStrategies">>

\* Some possible error of the tool is retryable (its isRetryable is truthy).
HasRetryable(tool) ==
    /\ tool.errors.defined
    /\ tool.errors.possibleErrors.defined
    /\ \E i \in DOMAIN tool.errors.possibleErrors.items :
          tool.errors.possibleErrors.items[i].isRetryable \in {"true", "'yes'"}

\* The tool's retryStrategies is missing or empty.
LacksStrategies(tool) ==
    \/ ~ tool.errors.retryStrategies.defined
    \/ tool.errors.retryStrategies.items = <<>>

\* C23: validateTool reports INCONSISTENT_STATE at errors.retryStrategies, and
\* isValid = false, whenever some possible error is retryable and
\* retryStrategies is missing or empty; it never reports it when no possible
\* error is retryable.
C23_RetryStrategiesRequired ==
    validation.st = "validated" =>
        LET tool == validation.tool
            result == validation.result
        IN /\ (HasRetryable(tool) /\ LacksStrategies(tool)) =>
                  (ReportsMissingStrategies(result) /\ ~ result.isValid)
           /\ ~ HasRetryable(tool) => ~ ReportsMissingStrategies(result)
           /\ ReportsMissingStrategies(result) => ~ result.isValid

\* The tool of the test 'should require retry strategies for retryable errors'.
C23_Witness ==
    /\ validation.st = "validated"
    /\ validation.tool =
          [validTool EXCEPT !.errors.possibleErrors =
                               Arr(<<[code |-> "'TEST'", description |-> "'Test'",
                                      isRetryable |-> "true", suggestedUserMessage |-> "'Test'"]>>),
                            !.errors.retryStrategies = Arr(<<>>)]
    /\ ~ validation.result.isValid
    /\ Len(validation.result.errors) = 1
    /\ ReportsMissingStrategies(validation.result)

\* =================================================== the compiler's validateTool
otherThanCompiler == <<currentValue, currentSequence, currentFrame, call, batch, returned, frameVars, streamVars, syncVars, validatorVars, busVars, limiterVars>>

\* A caller validates a tool definition.
CompilerValidate(tool) ==
    /\ compilation.st = "none"
    /\ compilation' = [st |-> "validated", tool |-> tool, valid |-> validateTool(tool)]
    /\ UNCHANGED otherThanCompiler

\* The caller has read the answer.
CompilerValidated ==
    /\ compilation.st = "validated"
    /\ compilation' = NotCompiled
    /\ UNCHANGED otherThanCompiler

NextCompiler ==
    \/ /\ compilation.st = "none"
       /\ \E tool \in ToolDefinitions : CompilerValidate(tool)
    \/ CompilerValidated

SpecCompiler == Init /\ [][NextCompiler]_vars

\* The definition has a name, a description, a declared input and an execute function.
WellFormed(tool) ==
    /\ tool.name # ""
    /\ tool.description # ""
    /\ DOMAIN tool.input # {}
    /\ tool.execute = "function"

\* C24: validateTool returns true exactly for the definitions with a non-empty
\* name, a non-empty description, at least one declared input and an execute
\* function, and it returns true for both tools of tools/web.ts.
C24_ShippedToolsValidate ==
    compilation.st = "validated" =>
        /\ compilation.valid <=> WellFormed(compilation.tool)
        /\ compilation.tool \in {getClickableElementsDefinition, clickElementDefinition}
              => compilation.valid

\* ========================================================= SimpleEventBus
otherThanBus == <<currentValue, currentSequence, currentFrame, call, batch, returned, frameVars, streamVars, syncVars, validatorVars, compilerVars, limiterVars>>

\* The bus after a call, with delivery holding what a caller's emit did.
BusBecomes(bus) ==
    /\ handlers' = bus.handlers
    /\ eventQueue' = bus.eventQueue
    /\ emitted' = bus.emitted
    /\ onceCalls' = bus.onceCalls
    /\ relayed' = bus.relayed
    /\ delivery' = bus.delivery

\* on(type, handler) and once(type, handler): the function is pushed and the
\* caller holds the closure that was returned.
Subscribe(type, handler, once) ==
    /\ Len(subscriptions) < MaxSubscriptions
    /\ LET subscription == [type |-> type, fn |-> handler, once |-> once,
                            id |-> Len(subscriptions) + 1]
       IN  /\ handlers' = [handlers EXCEPT ![type] = Append(@, subscription)]
           /\ subscriptions' = Append(subscriptions, subscription)
    /\ onceCalls' = Append(onceCalls, 0)
    /\ UNCHANGED <<eventQueue, emitted, relayed, delivery, otherThanBus>>

On(type, handler) == Subscribe(type, handler, FALSE)

Once(type, handler) == Subscribe(type, handler, TRUE)

\* A caller calls the function that on or once returned.
Unsubscribe(id) ==
    /\ id \in 1..Len(subscriptions)
    /\ BusBecomes(unsubscribe(Bus, subscriptions[id]))
    /\ UNCHANGED <<subscriptions, otherThanBus>>

\* A caller emits an event, while fewer than limit have been emitted.
Emit(type, limit) ==
    /\ emitted < limit
    /\ BusBecomes(emit([Bus EXCEPT !.delivery = [type |-> type, event |-> emitted + 1, calls |-> <<>>]], type))
    /\ UNCHANGED <<subscriptions, otherThanBus>>

NextBus ==
    \/ \E type \in EventTypes, handler \in Handlers : On(type, handler)
    \/ \E type \in EventTypes, handler \in Handlers : Once(type, handler)
    \/ \E id \in 1..MaxSubscriptions : Unsubscribe(id)
    \/ \E type \in EventTypes : Emit(type, MaxEmits)

SpecBus == Init /\ [][NextBus]_vars

\* A stream of cursor events that fills the queue and overflows it.
NextQueue ==
    \/ \E handler \in Handlers : On("cursor.move", handler)
    \/ \E handler \in Handlers : Once("cursor.move", handler)
    \/ Emit("cursor.move", MAX_QUEUE_SIZE + MaxOverflow)

SpecQueue == Init /\ [][NextQueue]_vars

\* The queue holds the last events emitted, oldest first.
MostRecentInOrder ==
    /\ Len(eventQueue) <= MAX_QUEUE_SIZE
    /\ Len(eventQueue) = IF emitted < MAX_QUEUE_SIZE THEN emitted ELSE MAX_QUEUE_SIZE
    /\ \A i \in 1..Len(eventQueue) :
          /\ eventQueue[i].event.id = emitted - Len(eventQueue) + i
          /\ eventQueue[i].event.type = eventQueue[i].type

\* Every function registered for the type when emit was called has been
\* called with the event.
DeliveredToAll ==
    \A i \in 1..Len(handlers[delivery'.type]) :
        \E j \in 1..Len(delivery'.calls) :
            /\ delivery'.calls[j].id = handlers[delivery'.type][i].id
            /\ delivery'.calls[j].event = delivery'.event

\* C27: after any sequence of emits the queue holds at most MAX_QUEUE_SIZE
\* entries, the most recently emitted events in emission order, and an emit
\* delivers its event to every handler registered for its type, also when it
\* drops the oldest entry.
C27_QueueBoundedDeliveryKept ==
    [][/\ MostRecentInOrder'
       /\ emitted' > emitted => DeliveredToAll]_vars

\* An emit has dropped entries while a handler was registered and called.
C27_Witness ==
    /\ emitted > MAX_QUEUE_SIZE
    /\ eventQueue[1].event.id > 1
    /\ delivery.event > MAX_QUEUE_SIZE
    /\ delivery.calls # <<>>

\* C28: the handler of a once registration is called for at most one event,
\* also when it emits an event of the same type while it is being called.
C28_OnceAtMostOnce ==
    \A id \in 1..Len(subscriptions) : subscriptions[id].once => onceCalls[id] <= 1

\* The entries of a list other than the subscription's own.
Without(list, id) ==
    LET Other(h) == h.id # id
    IN  SelectSeq(list, Other)

\* C29: calling the function returned by on(type, h) removes that
\* registration and no other: the other registrations, a second one of h
\* among them, stay in place for every type.
C29_UnsubscribeRemovesOnlyItsOwn ==
    [][\A id \in 1..Len(subscriptions) :
          (~subscriptions[id].once /\ Unsubscribe(id)) =>
              \A type \in EventTypes : handlers'[type] = Without(handlers[type], id)]_vars

\* ===================================================== the rate limiter
otherThanLimiter == <<currentValue, currentSequence, currentFrame, call, batch, returned, frameVars, streamVars, syncVars, validatorVars, compilerVars>>

\* Time passes.
Tick(delay) ==
    /\ clock + delay <= (MaxWindows + 1) * RATE_LIMIT_MS
    /\ clock' = clock + delay
    /\ UNCHANGED <<lastEventTime, forwarded, dropped, busVars, otherThanLimiter>>

\* The cursor moves: emitCursorEvent(event), with the emit of the bus.
EmitCursorEvent ==
    LET limiter == emitCursorEvent([lastEventTime |-> lastEventTime, forward |-> FALSE], clock)
    IN  /\ lastEventTime' = limiter.lastEventTime
        /\ IF limiter.forward
           THEN /\ forwarded' = forwarded \cup {clock}
                /\ dropped' = dropped
                /\ BusBecomes(emit([Bus EXCEPT !.delivery = [type |-> "cursor.move", event |-> emitted + 1, calls |-> <<>>]], "cursor.move"))
           ELSE /\ dropped' = dropped \cup {clock}
                /\ UNCHANGED <<forwarded, handlers, eventQueue, emitted, onceCalls, relayed, delivery>>
        /\ UNCHANGED <<clock, subscriptions, otherThanLimiter>>

NextLimiter ==
    \/ \E delay \in Delays : Tick(delay)
    \/ EmitCursorEvent

SpecLimiter == Init /\ [][NextLimiter]_vars

\* C30: any two cursor events forwarded to the bus are at least
\* RATE_LIMIT_MS apart, and lastEventTime changes only in a step that
\* forwards an event.
C30_ForwardedApart ==
    [][/\ \A t1, t2 \in forwarded' : t1 < t2 => t2 - t1 >= RATE_LIMIT_MS
       /\ lastEventTime' # lastEventTime => /\ emitted' = emitted + 1
                                             /\ forwarded' = forwarded \cup {clock}
                                             /\ lastEventTime' = clock]_vars

\* An event was forwarded, a later one was dropped, and the next one was
\* forwarded RATE_LIMIT_MS after the first.
C30_Witness ==
    \E t1, t2 \in forwarded :
        /\ t2 = t1 + RATE_LIMIT_MS
        /\ \E t \in dropped : t1 < t /\ t < t2

====
